---- MODULE Spec2Model ----
(***************************************************************************)
(* A model of the lottery simulation engine, DarkfiTable.background of     *)
(* script/research/lotterysim/core/lottery.py.                              *)
(*                                                                         *)
(* One run is: Start (lines 28-38), then one Slot step per iteration of    *)
(* the slot loop (lines 39-97), then Finish (lines 98-104).  Amounts       *)
(* (stake, Sigma, rewards) are reals in the code; the model keeps them as  *)
(* integers counting 1/Unit of a token, so that round(x, 1) is a real      *)
(* rounding and not the identity.  Slot numbers and list positions are     *)
(* 0-based as in the code; At reads a sequence at a 0-based position.      *)
(*                                                                         *)
(* The participants (core.darkie) and the controllers (pid.cascade) are    *)
(* not part of the sources at hand: they are modelled from their contract. *)
(***************************************************************************)
EXTENDS Integers, Sequences, FiniteSets, TLC

\* ---------------------------------------------------------------- bounds
\* Amounts are counted in 1/Unit of a token.
Unit == 32
\* The largest running_time a table is constructed with.
MaxRunningTime == 5
\* The largest number of participants added to a table.
MaxDarkies == 3
\* The most win draws (participants times slots) of one run.
MaxDraws == 10

\* ------------------------------------------------------------- constants
\* Slots per epoch (imported from core; a small value so that a short run
\* crosses epoch boundaries).
EPOCH_LENGTH == 2

\* The clipping range of the primary controller, in 1/Unit: issuance is
\* never negative, and zero gains give zero.
PrimaryClipMin == 0
PrimaryClipMax == 2 * Unit

\* The airdrop the tables are constructed with.
Airdrop == 300 * Unit

VARIABLES
    pc,                 \* "init", "running" or "done": where background() is
    outcome,            \* "none", "returned" or the exception that ended the run
    rand_running_time,  \* the parameter of background(), as it was passed
    running_time,       \* self.running_time
    initial_stake,      \* the sum of the stakes when background() was called
    Sigma,              \* self.Sigma
    darkies,            \* self.darkies: a sequence of [id, stake, won_hist]
    rewards,            \* self.rewards
    winners,            \* self.winners
    feedback,           \* the local feedback
    count,              \* the slot the loop is at
    total_stake,        \* the local total_stake of the last slot
    acc,                \* the local acc: the slot whose secondary.acc() it
                        \* holds, -1 while unbound
    calls,              \* the calls made by the last slot, in order
    resolutions,        \* history: every [slot, at] the resync has resolved
    rpc_up,             \* explorer: whether the node behind rpc answers
    blocks,             \* explorer: the header hashes of the node's blocks
    transactions,       \* explorer: the hashes of the node's transactions
    request,            \* explorer: the last request, [route, hash]
    response            \* explorer: its answer, [template, status, arg]

table_vars == <<pc, outcome, rand_running_time, running_time, initial_stake,
                Sigma, darkies, rewards, winners, feedback, count, total_stake, acc,
                calls, resolutions>>

explorer_vars == <<rpc_up, blocks, transactions, request, response>>

vars == <<pc, outcome, rand_running_time, running_time, initial_stake,
          Sigma, darkies, rewards, winners, feedback, count, total_stake, acc, calls,
          resolutions, rpc_up, blocks, transactions, request, response>>

\* --------------------------------------------------------------- helpers
At(s, i) == s[i + 1]

Last(s) == s[Len(s)]

RECURSIVE SumTo(_, _)
SumTo(f, n) == IF n = 0 THEN 0 ELSE f[n] + SumTo(f, n - 1)

SumStake(ds) == SumTo([i \in 1..Len(ds) |-> ds[i].stake], Len(ds))

Bit(b) == IF b THEN 1 ELSE 0

Perms(n) == {p \in [1..n -> 1..n] : \A i, j \in 1..n : p[i] = p[j] => i = j}

\* A call: of op, on participant id (-1: none), in slot, with the amount
\* passed or returned, the measured value fb and the smoothed feedback f
\* passed (-1: none).
CallF(op, id, slot, amount, fb, f) ==
    [op |-> op, id |-> id, slot |-> slot, amount |-> amount, fb |-> fb, f |-> f]

Call(op, id, slot, amount, fb) == CallF(op, id, slot, amount, fb, -1)

\* round(x, 1) of x = q/Unit, as a number of tenths: the nearest tenth, a tie
\* going to the even one.
Round1(q) ==
    LET n == 10 * q
        fl == n \div Unit
        rem == n % Unit
    IN IF 2 * rem < Unit THEN fl
       ELSE IF 2 * rem > Unit THEN fl + 1
       ELSE IF fl % 2 = 0 THEN fl ELSE fl + 1

\* ------------------------------------------------- participant (contract)
\* Darkie.run: draws the slot's outcome and appends it to won_hist.
Run(d, won) == [d EXCEPT !.won_hist = Append(@, won)]

\* Darkie.update_stake: the stake grows by the reward.
UpdateStake(d, reward) == [d EXCEPT !.stake = @ + reward]

\* Darkie.resync_stake: the same increase, for a slot resolved afterwards.
ResyncStake(d, reward) == [d EXCEPT !.stake = @ + reward]

\* ------------------------------------------------- controller (contract)
Clip(x, lo, hi) == IF x < lo THEN lo ELSE IF x > hi THEN hi ELSE x

\* What the primary's transfer function may compute before clipping: a value
\* below the range, zero (zero gains), a value above the range.
PrimaryRaw == {-Unit, 0, 3 * Unit}

\* The secondary controller taken with proportional gain 1 and no integral
\* or derivative gain: the target of one leader per slot and its clipping
\* range.
SecondaryTarget == 1
SecondaryClipMin == -1
SecondaryClipMax == 1

\* SecondaryDiscretePID.pid_clipped: the clipped output f on the measured
\* number of leaders.
SecondaryPidClipped(measured) ==
    Clip(SecondaryTarget - measured, SecondaryClipMin, SecondaryClipMax)

\* PrimaryDiscretePID.pid_clipped: the clipped output.
PrimaryPidClipped(raw) == Clip(raw, PrimaryClipMin, PrimaryClipMax)

\* ------------------------------------------------------------ the engine
\* randint(0, n) written for randint(1, n).
DrawRunningTime_fromzero(n, rand) == IF rand THEN 0..n ELSE {n}

\* line 32: the running time the run uses; no value when randint(1, n) has
\* an empty range.
DrawRunningTime(n, rand) == IF rand THEN 1..n ELSE {n}

\* The issuance computed in every slot.
IsEpochBoundary_always(c) == TRUE

\* line 44
IsEpochBoundary(c) == c % EPOCH_LENGTH = 0

\* lines 61-62: the number of participants that won the slot just run.
CountWinners(ds) == SumTo([i \in 1..Len(ds) |-> Bit(Last(ds[i].won_hist))], Len(ds))

\* A slot without a winner taken as final too.
Finalizes_zero(w) == w <= 1

\* A slot with several winners taken as final too.
Finalizes_some(w) == w >= 1

\* line 66
Finalizes(w) == w = 1

\* lines 67-70: the position (from 1) of the first participant that won the
\* slot just run; 0 when there is none.
FirstWinner(ds) ==
    IF \E i \in 1..Len(ds) : Last(ds[i].won_hist)
    THEN CHOOSE i \in 1..Len(ds) :
            /\ Last(ds[i].won_hist)
            /\ \A j \in 1..(i - 1) : ~Last(ds[j].won_hist)
    ELSE 0

\* A payout that is not added to the supply.
AddToSigma_forgotten(S, reward) == S

\* "=" written for "+=".
AddToSigma_assigned(S, reward) == reward

\* line 72, line 93
AddToSigma(S, reward) == S + reward

\* The scan without its break: every entry that is not 1 is counted.
RECURSIVE MergeLength_nobreak(_)
MergeLength_nobreak(ws) ==
    IF ws = <<>> THEN 0
    ELSE (IF Last(ws) # 1 THEN 1 ELSE 0) + MergeLength_nobreak(SubSeq(ws, 1, Len(ws) - 1))

\* lines 74-79: the number of trailing entries of ws that are not 1.
RECURSIVE MergeLength(_)
MergeLength(ws) ==
    IF ws = <<>> THEN 0
    ELSE IF Last(ws) # 1 THEN 1 + MergeLength(SubSeq(ws, 1, Len(ws) - 1))
    ELSE 0

\* The offset taken from the resolving slot itself.
ResyncSlotId_off(c, i) == c - i

\* line 81
ResyncSlotId(c, i) == c - (i + 1)

\* line 82
ResyncRewardId(slot) == slot \div EPOCH_LENGTH

\* lines 86-91: the position (from 1) of the first participant, in the
\* shuffled order, that won slot; the first position when none did.
WinningIdx(ds, slot) ==
    IF \E i \in 1..Len(ds) : At(ds[i].won_hist, slot)
    THEN CHOOSE i \in 1..Len(ds) :
            /\ At(ds[i].won_hist, slot)
            /\ \A j \in 1..(i - 1) : ~At(ds[j].won_hist, slot)
    ELSE 1

\* A draw with replacement: every place is given the participant drawn first.
Shuffle_resample(ds, perm) == [k \in 1..Len(ds) |-> ds[perm[1]]]

\* line 87: the list in the order perm gives it.
Shuffle(ds, perm) == [k \in 1..Len(ds) |-> ds[perm[k]]]

\* The round paying the current epoch's issuance, rewards[-1].
ResyncStep_lastreward(st, i, perm, c, rw) ==
    LET slot == ResyncSlotId(c, i)
        reward == Last(rw)
        shuffled == Shuffle(st.darkies, perm)
        idx == WinningIdx(shuffled, slot)
    IN [darkies |-> [shuffled EXCEPT ![idx] = ResyncStake(@, reward)],
        Sigma |-> AddToSigma(st.Sigma, reward),
        calls |-> Append(st.calls, Call("resync_stake", shuffled[idx].id, slot, reward, -1))]

\* The round with resync_reward_id added to Sigma where resync_reward is meant.
ResyncStep_wrongvar(st, i, perm, c, rw) ==
    LET slot == ResyncSlotId(c, i)
        reward == At(rw, ResyncRewardId(slot))
        shuffled == Shuffle(st.darkies, perm)
        idx == WinningIdx(shuffled, slot)
    IN [darkies |-> [shuffled EXCEPT ![idx] = ResyncStake(@, reward)],
        Sigma |-> AddToSigma(st.Sigma, ResyncRewardId(slot)),
        calls |-> Append(st.calls, Call("resync_stake", shuffled[idx].id, slot, reward, -1))]

\* lines 81-93: one round of the resync loop, on st = [darkies, Sigma, calls].
ResyncStep(st, i, perm, c, rw) ==
    LET slot == ResyncSlotId(c, i)
        reward == At(rw, ResyncRewardId(slot))
        shuffled == Shuffle(st.darkies, perm)
        idx == WinningIdx(shuffled, slot)
    IN [darkies |-> [shuffled EXCEPT ![idx] = ResyncStake(@, reward)],
        Sigma |-> AddToSigma(st.Sigma, reward),
        calls |-> Append(st.calls, Call("resync_stake", shuffled[idx].id, slot, reward, -1))]

\* line 80: the resync loop, rounds i .. m-1.
RECURSIVE Resync(_, _, _, _, _, _)
Resync(st, i, m, perms, c, rw) ==
    IF i >= m THEN st
    ELSE Resync(ResyncStep(st, i, perms[i + 1], c, rw), i + 1, m, perms, c, rw)

\* The payout with Sigma raised and the winner left unpaid.
Payout_unpaid(st, c, rw) ==
    [darkies |-> st.darkies,
     Sigma |-> AddToSigma(st.Sigma, Last(rw)),
     calls |-> st.calls]

\* lines 67-72: the payout of a finalizing slot, on st = [darkies, Sigma, calls].
Payout(st, c, rw) ==
    LET idx == FirstWinner(st.darkies)
        reward == Last(rw)
    IN [darkies |-> IF idx = 0 THEN st.darkies
                    ELSE [st.darkies EXCEPT ![idx] = UpdateStake(@, reward)],
        Sigma |-> AddToSigma(st.Sigma, reward),
        calls |-> IF idx = 0 THEN st.calls
                  ELSE Append(st.calls, Call("update_stake", st.darkies[idx].id, c, reward, -1))]

\* The check without the rounding.
StakeCheck_unrounded(ts, S) == ts <= S

\* line 96
StakeCheck(ts, S) == Round1(ts) <= Round1(S)

\* acc not computed in slot 0.
AccAfter_skipfirst(boundary, c, a) == IF boundary /\ c > 0 THEN c ELSE a

\* lines 44-45: acc after the epoch-boundary block of slot c.
AccAfter(boundary, c, a) == IF boundary THEN c ELSE a

\* The epoch-boundary block placed above the secondary controller's call.
ControllerCalls_primaryfirst(boundary, c, fb, f, a, reward) ==
    (IF boundary
     THEN <<Call("secondary.acc", -1, c, a, -1),
            Call("primary.pid_clipped", -1, c, reward, a)>>
     ELSE <<>>)
    \o <<CallF("secondary.pid_clipped", -1, c, -1, fb, f)>>

\* lines 42-48: the calls on the controllers in slot c, in order: the
\* secondary on the feedback fb, giving f; at an epoch boundary its acc(),
\* giving a, and the primary on a, giving reward.
ControllerCalls(boundary, c, fb, f, a, reward) ==
    <<CallF("secondary.pid_clipped", -1, c, -1, fb, f)>>
    \o (IF boundary
        THEN <<Call("secondary.acc", -1, c, a, -1),
               Call("primary.pid_clipped", -1, c, reward, a)>>
        ELSE <<>>)

\* The loop with run called a second time on each participant.
RunDarkies_twice(ds, won, n, S, fb, f, c) ==
    [darkies |-> [i \in 1..Len(ds) |-> IF i <= n THEN Run(Run(ds[i], won[i]), won[i]) ELSE ds[i]],
     calls |-> [k \in 1..(3 * n) |->
                  IF k % 3 = 1
                  THEN CallF("set_sigma_feedback", ds[(k + 2) \div 3].id, c, S, fb, f)
                  ELSE Call("run", ds[(k + 2) \div 3].id, c, -1, -1)],
     total_stake |-> SumTo([i \in 1..n |-> Run(Run(ds[i], won[i]), won[i]).stake], n)]

\* The loop with f and the raw feedback handed over in each other's place.
RunDarkies_swapped(ds, won, n, S, fb, f, c) ==
    [darkies |-> [i \in 1..Len(ds) |-> IF i <= n THEN Run(ds[i], won[i]) ELSE ds[i]],
     calls |-> [k \in 1..(2 * n) |->
                  IF k % 2 = 1
                  THEN CallF("set_sigma_feedback", ds[(k + 1) \div 2].id, c, S, f, fb)
                  ELSE Call("run", ds[k \div 2].id, c, -1, -1)],
     total_stake |-> SumTo([i \in 1..n |-> Run(ds[i], won[i]).stake], n)]

\* lines 52-57: the participants' loop over the first n participants: each
\* is given the feedback, then run with its draw; [darkies, calls,
\* total_stake] after it.
RunDarkies(ds, won, n, S, fb, f, c) ==
    [darkies |-> [i \in 1..Len(ds) |-> IF i <= n THEN Run(ds[i], won[i]) ELSE ds[i]],
     calls |-> [k \in 1..(2 * n) |->
                  IF k % 2 = 1
                  THEN CallF("set_sigma_feedback", ds[(k + 1) \div 2].id, c, S, fb, f)
                  ELSE Call("run", ds[k \div 2].id, c, -1, -1)],
     total_stake |-> SumTo([i \in 1..n |-> Run(ds[i], won[i]).stake], n)]

\* ------------------------------------------------------------- explorer
\* The hashes a request may carry: 0 is the empty string, the default of
\* search_hash; 1 .. MaxHash are the hashes a node may know.
MaxHash == 3

Hashes == 0..MaxHash

NoRequest == [route |-> "none", hash |-> -1]

NoResponse == [template |-> "none", status |-> 0, arg |-> -1]

\* No explorer is running.
NoExplorer ==
    /\ rpc_up = FALSE
    /\ blocks = {}
    /\ transactions = {}
    /\ request = NoRequest
    /\ response = NoResponse

\* What a call on the rpc client gives: a result, or an exception.
Returned(v) == [raised |-> FALSE, value |-> v]

Raised == [raised |-> TRUE, value |-> -1]

\* rpc.get_block, rpc.get_block_transactions: the block with header hash h
\* and its transactions; a failure raises.
GetBlock(up, bs, h) == IF up /\ h \in bs THEN Returned(h) ELSE Raised

GetBlockTransactions(up, bs, h) == IF up /\ h \in bs THEN Returned(h) ELSE Raised

\* rpc.get_transaction: the transaction with hash h; a failure raises.
GetTransaction(up, txs, h) == IF up /\ h \in txs THEN Returned(h) ELSE Raised

\* rpc.get_last_n_blocks, rpc.get_basic_statistics
GetLastNBlocks(up) == IF up THEN Returned(-1) ELSE Raised

GetBasicStatistics(up) == IF up THEN Returned(-1) ELSE Raised

\* What a view gives Flask: a rendered template, or the exception it let out.
Rendered(template, arg) == [raised |-> FALSE, template |-> template, arg |-> arg]

ViewRaised == [raised |-> TRUE, template |-> "none", arg |-> -1]

\* lines 53-55: the handler of 404, which Flask calls for a path no route
\* matches.
page_not_found == [template |-> "404.html", status |-> 404, arg |-> -1]

\* lines 57-59: the handler of 500, which Flask calls for an exception a
\* view lets out.
page_not_found_500 == [template |-> "500.html", status |-> 500, arg |-> -1]

\* Flask's answer to what a view gave: the default status is 200.
Answer(v) ==
    IF v.raised THEN page_not_found_500
    ELSE [template |-> v.template, status |-> 200, arg |-> v.arg]

\* lines 27-29
IndexView(up) ==
    IF GetLastNBlocks(up).raised \/ GetBasicStatistics(up).raised
    THEN ViewRaised ELSE Rendered("index.html", -1)

\* lines 44-46
BlockView(up, bs, h) ==
    IF GetBlock(up, bs, h).raised \/ GetBlockTransactions(up, bs, h).raised
    THEN ViewRaised ELSE Rendered("block.html", GetBlock(up, bs, h).value)

\* lines 50-51
TransactionView(up, txs, h) ==
    IF GetTransaction(up, txs, h).raised
    THEN ViewRaised ELSE Rendered("transaction.html", GetTransaction(up, txs, h).value)

\* lines 34-40: the try block is the block view; the except branch is the
\* transaction view, with nothing around it.
SearchView(up, bs, txs, h) ==
    IF ~BlockView(up, bs, h).raised THEN BlockView(up, bs, h)
    ELSE TransactionView(up, txs, h)

\* A node with some blocks and transactions, reachable or not, and an
\* explorer that has served nothing; no table is being run.
ExplorerInit ==
    /\ rpc_up \in BOOLEAN
    /\ blocks \in SUBSET (1..MaxHash)
    /\ transactions \in SUBSET (1..MaxHash)
    /\ request = NoRequest
    /\ response = NoResponse
    /\ pc = "done"
    /\ outcome = "none"
    /\ running_time = 0
    /\ rand_running_time = FALSE
    /\ darkies = <<>>
    /\ initial_stake = 0
    /\ Sigma = Airdrop
    /\ rewards = <<>>
    /\ winners = <<>>
    /\ feedback = 0
    /\ count = 0
    /\ total_stake = 0
    /\ acc = -1
    /\ calls = <<>>
    /\ resolutions = <<>>

\* lines 25-29: GET /
index ==
    /\ request' = [route |-> "/", hash |-> -1]
    /\ response' = Answer(IndexView(rpc_up))
    /\ UNCHANGED <<rpc_up, blocks, transactions, table_vars>>

\* lines 31-40: /search?search_hash=h
search ==
    \E h \in Hashes :
        /\ request' = [route |-> "/search", hash |-> h]
        /\ response' = Answer(SearchView(rpc_up, blocks, transactions, h))
        /\ UNCHANGED <<rpc_up, blocks, transactions, table_vars>>

\* lines 42-46: /block/h
block ==
    \E h \in Hashes \ {0} :
        /\ request' = [route |-> "/block", hash |-> h]
        /\ response' = Answer(BlockView(rpc_up, blocks, h))
        /\ UNCHANGED <<rpc_up, blocks, transactions, table_vars>>

\* lines 48-51: /transaction/h
transaction ==
    \E h \in Hashes \ {0} :
        /\ request' = [route |-> "/transaction", hash |-> h]
        /\ response' = Answer(TransactionView(rpc_up, transactions, h))
        /\ UNCHANGED <<rpc_up, blocks, transactions, table_vars>>

\* A request for a path that no route matches: Flask answers with the
\* handler of 404.
unrouted ==
    /\ request' = [route |-> "unrouted", hash |-> -1]
    /\ response' = page_not_found
    /\ UNCHANGED <<rpc_up, blocks, transactions, table_vars>>

ExplorerNext == index \/ search \/ block \/ transaction \/ unrouted

ExplorerSpec == ExplorerInit /\ [][ExplorerNext]_vars

\* ----------------------------------------------------------------- runs
\* The lists of stakes a table is filled with (add_darkie, lines 24-25):
\* none; one stake a hair above the airdrop; equal stakes of 100; equal
\* stakes of 200.
Populations ==
    {<<>>, <<Airdrop + 1>>}
    \cup {[i \in 1..n |-> 100 * Unit] : n \in 1..MaxDarkies}
    \cup {[i \in 1..n |-> 200 * Unit] : n \in 1..MaxDarkies}

\* lines 10-25: a constructed table, its participants added, background()
\* about to be called.
Init ==
    /\ pc = "init"
    /\ outcome = "none"
    /\ running_time \in 0..MaxRunningTime
    /\ rand_running_time \in BOOLEAN
    /\ \E s \in Populations :
         /\ Len(s) * running_time <= MaxDraws
         /\ darkies = [i \in 1..Len(s) |-> [id |-> i, stake |-> s[i], won_hist |-> <<>>]]
         /\ initial_stake = SumTo(s, Len(s))
    /\ Sigma = Airdrop
    /\ rewards = <<>>
    /\ winners = <<>>
    /\ feedback = 0
    /\ count = 0
    /\ total_stake = 0
    /\ acc = -1
    /\ calls = <<>>
    /\ resolutions = <<>>
    /\ NoExplorer

\* lines 28-38: the run length is drawn; randint(1, n) raises ValueError on
\* an empty range.
Start ==
    /\ pc = "init"
    /\ IF DrawRunningTime(running_time, rand_running_time) = {}
       THEN /\ pc' = "done"
            /\ outcome' = "ValueError"
            /\ UNCHANGED running_time
       ELSE /\ pc' = "running"
            /\ running_time' \in DrawRunningTime(running_time, rand_running_time)
            /\ UNCHANGED outcome
    /\ feedback' = 0
    /\ UNCHANGED <<rand_running_time, initial_stake, Sigma, darkies, rewards,
                   winners, count, total_stake, acc, calls, resolutions>>
    /\ UNCHANGED explorer_vars

\* lines 66-93 of a slot: the state [darkies, Sigma, calls] after the slot's
\* payouts, perms being the shuffles of the resync loop.
Finalize(st, ws, perms, c, rw) ==
    Resync(Payout(st, c, rw), 0, MergeLength(SubSeq(ws, 1, Len(ws) - 1)), perms, c, rw)

\* The resync_stake calls among cs as [slot, at] entries, at being the slot
\* that resolved them.
Resolved(cs, c) ==
    LET rs == SelectSeq(cs, LAMBDA x : x.op = "resync_stake")
    IN [k \in 1..Len(rs) |-> [slot |-> rs[k].slot, at |-> c]]

\* lines 39-97: one iteration of the slot loop, raw being what the primary
\* controller computes, won the participants' draws and perms the shuffles.
SlotWith(raw, won, perms) ==
    LET boundary == IsEpochBoundary(count)
        f == SecondaryPidClipped(feedback)
        reward == PrimaryPidClipped(raw)
        rw == IF boundary THEN Append(rewards, reward) ELSE rewards
        a == AccAfter(boundary, count, acc)
        upd == RunDarkies(darkies, won, Len(darkies), Sigma, feedback, f, count)
        head == ControllerCalls(boundary, count, feedback, f, a, reward) \o upd.calls
        ts == upd.total_stake
        w == CountWinners(upd.darkies)
        ws == Append(winners, w)
        st0 == [darkies |-> upd.darkies, Sigma |-> Sigma, calls |-> head]
        st == IF Finalizes(Last(ws)) THEN Finalize(st0, ws, perms, count, rw) ELSE st0
    IN /\ rewards' = rw
       /\ acc' = a
       /\ total_stake' = ts
       /\ winners' = ws
       /\ feedback' = w
       /\ darkies' = st.darkies
       /\ Sigma' = st.Sigma
       /\ resolutions' = resolutions \o Resolved(st.calls, count)
       /\ IF a = -1
          THEN \* line 94 reads acc: unbound, it raises
               /\ calls' = st.calls
               /\ pc' = "done"
               /\ outcome' = "UnboundLocalError"
               /\ UNCHANGED count
          ELSE /\ calls' = Append(st.calls, Call("set_description", -1, count, a, -1))
               /\ IF StakeCheck(ts, st.Sigma)
                  THEN /\ count' = count + 1
                       /\ UNCHANGED <<pc, outcome>>
                  ELSE /\ pc' = "done"
                       /\ outcome' = "AssertionError"
                       /\ UNCHANGED count

Slot ==
    /\ pc = "running"
    /\ count < running_time
    /\ \E raw \in (IF IsEpochBoundary(count) THEN PrimaryRaw ELSE {0}) :
       \E won \in [1..Len(darkies) -> BOOLEAN] :
         LET w == SumTo([i \in 1..Len(darkies) |-> Bit(won[i])], Len(darkies))
             m == IF Finalizes(w) THEN MergeLength(winners) ELSE 0
         IN \E perms \in [1..m -> Perms(Len(darkies))] : SlotWith(raw, won, perms)
    /\ UNCHANGED <<rand_running_time, running_time, initial_stake>>
    /\ UNCHANGED explorer_vars

\* lines 98-104: the summaries; sum(...)/len(...) raises ZeroDivisionError
\* on an empty list.
Finish ==
    /\ pc = "running"
    /\ count >= running_time
    /\ pc' = "done"
    /\ outcome' = IF Len(rewards) = 0 \/ Len(darkies) = 0
                  THEN "ZeroDivisionError" ELSE "returned"
    /\ UNCHANGED <<rand_running_time, running_time, initial_stake, Sigma,
                   darkies, rewards, winners, feedback, count, total_stake, acc, calls,
                   resolutions>>
    /\ UNCHANGED explorer_vars

Next == Start \/ Slot \/ Finish

Spec == Init /\ [][Next]_vars

\* The loop runs on and the summaries follow it: nothing in background()
\* waits.
FairSpec == Spec /\ WF_vars(Next)

\* ---------------------------------------------------------------- claims
\* The 0-based number of the last slot run, and whether a slot has run.
LastSlot == Len(winners) - 1

SlotRan == Len(winners) > 0

\* The calls of the last slot with operation op.
CallsOf(op) == SelectSeq(calls, LAMBDA x : x.op = op)

CeilDiv(a, b) == (a + b - 1) \div b

\* C1: in a run that starts with stakes summing to at most the airdrop, after
\* every slot the sum of the participants' stakes is at most Sigma, both
\* rounded to one decimal.
C1_StakeWithinSupply ==
    (pc # "init" /\ initial_stake <= Airdrop)
        => Round1(SumStake(darkies)) <= Round1(Sigma)

\* C1 witness: a slot has finalized and resolved an earlier slot, paying a
\* positive reward, in a run that started within the airdrop.
C1_Witness ==
    /\ initial_stake <= Airdrop
    /\ SumStake(darkies) > initial_stake
    /\ \E k \in 1..Len(calls) : calls[k].op = "resync_stake" /\ calls[k].amount > 0

\* C2: Sigma never decreases from one slot to the next.
C2_SigmaNonDecreasing == [][Sigma' >= Sigma]_vars

\* C2 witness: Sigma has grown, over a run that also had a slot that did not
\* finalize.
C2_Witness ==
    /\ Sigma > Airdrop
    /\ \E i \in 1..Len(winners) : winners[i] # 1

\* C3: rewards has one entry per epoch begun, so ceil(running_time /
\* EPOCH_LENGTH) entries once all slots have run; it only grows, by one
\* entry, in exactly the slots whose number is a multiple of EPOCH_LENGTH.
C3_RewardsPerEpoch ==
    /\ [](Len(rewards) = CeilDiv(Len(winners), EPOCH_LENGTH))
    /\ []((pc = "done" /\ outcome \in {"returned", "ZeroDivisionError"})
            => /\ Len(winners) = running_time
               /\ Len(rewards) = CeilDiv(running_time, EPOCH_LENGTH))
    /\ [][/\ Len(rewards') >= Len(rewards)
          /\ SubSeq(rewards', 1, Len(rewards)) = rewards
          /\ winners' # winners =>
                Len(rewards') = Len(rewards) + Bit(LastSlot' % EPOCH_LENGTH = 0)
          /\ winners' = winners => rewards' = rewards]_vars

\* C3 witness: a run of more than two epochs, the last one cut short, has
\* returned.
C3_Witness ==
    /\ outcome = "returned"
    /\ running_time = 2 * EPOCH_LENGTH + 1
    /\ Len(rewards) = 3

\* The participant with the given id, wherever the shuffles have put it.
DarkieOf(ds, id) == ds[CHOOSE i \in 1..Len(ds) : ds[i].id = id]

\* C4: a participant's stake changes only in a slot with exactly one winner,
\* and then only if it is that winner or is paid by the resync of an earlier
\* slot that did not finalize.
C4_StakeChangesOnlyOnFinalization ==
    [][\A id \in 1..Len(darkies) :
          DarkieOf(darkies', id).stake # DarkieOf(darkies, id).stake
            => /\ Len(winners') = Len(winners) + 1
               /\ Last(winners') = 1
               /\ \/ Last(DarkieOf(darkies', id).won_hist)
                  \/ \E k \in 1..Len(calls') :
                        /\ calls'[k].op = "resync_stake"
                        /\ calls'[k].id = id
                        /\ calls'[k].slot < LastSlot'
                        /\ At(winners, calls'[k].slot) # 1]_vars

\* C4 witness: a slot has paid its winner and, by resync, another
\* participant.
C4_Witness ==
    \E a, b \in 1..Len(calls) :
        /\ calls[a].op = "update_stake" /\ calls[a].amount > 0
        /\ calls[b].op = "resync_stake" /\ calls[b].amount > 0
        /\ calls[a].id # calls[b].id

\* The number of slots right before slot s whose winner count is not 1.
ProvisionalRun(ws, s) ==
    CHOOSE k \in 0..s :
        /\ \A j \in 1..k : At(ws, s - j) # 1
        /\ k = s \/ At(ws, s - k - 1) = 1

\* The slots the last slot's resync resolved, in the order resolved.
ResolvedSlots ==
    [k \in 1..Len(CallsOf("resync_stake")) |-> CallsOf("resync_stake")[k].slot]

\* C5: a finalizing slot s resolves exactly the slots s-1, s-2, ... of the
\* longest run of slots right before s whose winner count is not 1; for
\* winners = [1, 0, 0, 1] these are slots 2 and 1.
C5_ResyncResolvesTheProvisionalRun ==
    (SlotRan /\ Last(winners) = 1)
        => /\ ResolvedSlots =
                [i \in 1..ProvisionalRun(winners, LastSlot) |-> LastSlot - i]
           /\ winners = <<1, 0, 0, 1>> => ResolvedSlots = <<2, 1>>

\* C5 witness: slot 3 of winners = [1, 0, 0, 1] has run.
C5_Witness ==
    /\ winners = <<1, 0, 0, 1>>
    /\ Len(CallsOf("resync_stake")) = 2

\* C6: every resync payout goes to a participant that won the resolved slot.
C6_ResyncPaysAWinner ==
    \A k \in 1..Len(calls) :
        calls[k].op = "resync_stake"
            => At(DarkieOf(darkies, calls[k].id).won_hist, calls[k].slot)

AllZero(rw) == \A i \in 1..Len(rw) : rw[i] = 0

\* C7: as long as every issuance the primary controller has given is 0,
\* Sigma is the airdrop and no stake has changed.
C7_ZeroIssuanceKeepsSupply ==
    AllZero(rewards)
        => /\ Sigma = Airdrop
           /\ SumStake(darkies) = initial_stake

\* C7 witness: with zero issuance in two epochs and three participants, a
\* slot has finalized, paid its winner and resolved an earlier slot.
C7_Witness ==
    /\ AllZero(rewards)
    /\ Len(rewards) = 2
    /\ Len(darkies) = 3
    /\ \E k \in 1..Len(calls) : calls[k].op = "update_stake"
    /\ \E k \in 1..Len(calls) : calls[k].op = "resync_stake"

\* C9, as claimed: a run that has ended has returned its result after all
\* its slots, or has aborted on the stake check.
C9_ReturnsOrAborts ==
    pc = "done"
        => \/ outcome = "returned" /\ Len(winners) = running_time
           \/ outcome = "AssertionError"

\* C9, amended: every run ends.  It ends by the stake check failing; or
\* after slots 0 .. running_time-1, run in this order and once each, in the
\* summaries, which return the result unless there is no participant or no
\* reward to average over (ZeroDivisionError); or, before any slot, by the
\* draw of the run length failing on a configured running_time below 1
\* (ValueError).  A drawn run length is within 1 .. the configured one; a
\* run length not drawn is the configured one.
C9_RunEnds ==
    /\ <>(pc = "done")
    /\ [](pc = "done"
            => \/ outcome = "AssertionError"
               \/ /\ outcome \in {"returned", "ZeroDivisionError"}
                  /\ count = running_time
                  /\ Len(winners) = running_time
                  /\ outcome = "ZeroDivisionError"
                        <=> (Len(darkies) = 0 \/ Len(rewards) = 0)
               \/ /\ outcome = "ValueError"
                  /\ winners = <<>>
                  /\ running_time < 1)
    /\ [][/\ (pc = "init" /\ pc' = "running")
                => IF rand_running_time
                   THEN running_time' \in 1..running_time
                   ELSE running_time' = running_time
          /\ pc # "init" => running_time' = running_time
          /\ winners' # winners
                => /\ Len(winners') = Len(winners) + 1
                   /\ LastSlot' = count
                   /\ count < running_time
                   /\ count' = count + 1 \/ outcome' = "AssertionError"
          /\ winners' = winners => count' = count]_vars

\* C9 witness: a run with a drawn run length has run at least three slots
\* and returned.
C9_Witness ==
    /\ rand_running_time
    /\ outcome = "returned"
    /\ Len(winners) = running_time
    /\ running_time >= 3

\* C10: every slot ends with the check of the stake summed in that slot
\* against Sigma, both rounded to one decimal; the run aborts exactly when it
\* fails, and after the abort nothing changes any more: no slot, no entry of
\* rewards or winners, no stake, no supply, no result.
C10_AbortOnFailedCheck ==
    [][/\ winners' # winners
            => IF Round1(total_stake') <= Round1(Sigma')
               THEN pc' = "running" /\ outcome' = "none"
               ELSE pc' = "done" /\ outcome' = "AssertionError" /\ count' = count
       /\ outcome = "AssertionError"
            => /\ outcome' = "AssertionError"
               /\ pc' = "done"
               /\ <<rewards', winners', darkies', Sigma', count'>>
                    = <<rewards, winners, darkies, Sigma, count>>]_vars

\* C10 witness: the check has failed in a slot that finalized and paid its
\* winner.
C10_Witness ==
    /\ outcome = "AssertionError"
    /\ Last(winners) = 1
    /\ \E k \in 1..Len(calls) : calls[k].op = "update_stake" /\ calls[k].amount > 0

\* C11: a run that reaches the summaries with no participant, or with no
\* reward, ends with an explicit empty-input error, not with the division's
\* own ZeroDivisionError.
C11_EmptyInputIsExplicit ==
    (pc = "done" /\ outcome \notin {"AssertionError", "ValueError"}
                 /\ (Len(darkies) = 0 \/ Len(rewards) = 0))
        => outcome = "EmptyInputError"

\* The last slot that was an epoch boundary, at or before slot s.
LastBoundary(s) == s - (s % EPOCH_LENGTH)

\* C12: acc is never read unbound, and what a slot reads (line 94) is the
\* value computed at the last epoch boundary at or before that slot, also
\* in slots that are no boundary; the summaries do not read acc.
C12_AccBoundBeforeRead ==
    /\ outcome # "UnboundLocalError"
    /\ SlotRan
        => /\ acc = LastBoundary(LastSlot)
           /\ Len(CallsOf("set_description")) = 1
           /\ CallsOf("set_description")[1].amount = LastBoundary(LastSlot)
           /\ CallsOf("set_description")[1].slot = LastSlot

\* C12 witness: slot 3, not an epoch boundary, has read the acc of slot 2,
\* and the run has returned.
C12_Witness ==
    /\ outcome = "returned"
    /\ LastSlot = 2 * EPOCH_LENGTH - 1
    /\ CallsOf("set_description")[1].amount = EPOCH_LENGTH

\* A step that runs one slot.
SlotStep == Len(winners') = Len(winners) + 1

\* C14: a slot whose winner count is 0 or more than 1 leaves Sigma and every
\* participant's stake as they were, in the same order, and makes no
\* update_stake and no resync_stake call; the two cases do not differ.
C14_NonFinalizingSlotPaysNothing ==
    [][(SlotStep /\ Last(winners') # 1)
        => /\ Sigma' = Sigma
           /\ Len(darkies') = Len(darkies)
           /\ \A i \in 1..Len(darkies) :
                /\ darkies'[i].id = darkies[i].id
                /\ darkies'[i].stake = darkies[i].stake
           /\ \A k \in 1..Len(calls') :
                calls'[k].op \notin {"update_stake", "resync_stake"}
           /\ resolutions' = resolutions]_vars

\* C14 witness: after a slot that paid a positive reward, a slot with two
\* winners has run, and before it a slot with none.
C14_Witness ==
    /\ Sigma > Airdrop
    /\ Len(winners) >= 3
    /\ Last(winners) = 2
    /\ \E i \in 1..(Len(winners) - 1) : winners[i] = 0
    /\ calls # <<>>

\* The winner count the secondary controller is to measure in slot t.
Measured(t) == IF t = 0 THEN 0 ELSE At(winners, t - 1)

\* C15: in every slot t the secondary controller is called once, first, on 0
\* when t = 0 and on winners[t-1] otherwise; that value and the output f of
\* that call are what every participant is given by set_sigma_feedback in
\* slot t.
C15_FeedbackIsPreviousWinners ==
    SlotRan
        => /\ Len(CallsOf("secondary.pid_clipped")) = 1
           /\ calls[1].op = "secondary.pid_clipped"
           /\ calls[1].slot = LastSlot
           /\ calls[1].fb = Measured(LastSlot)
           /\ Len(CallsOf("set_sigma_feedback")) = Len(darkies)
           /\ \A k \in 1..Len(calls) :
                calls[k].op = "set_sigma_feedback"
                    => /\ calls[k].fb = calls[1].fb
                       /\ calls[k].f = calls[1].f
                       /\ calls[k].slot = LastSlot

\* C15 witness: a slot after one with two winners has run with three
\* participants, the controller's output differing from what it measured.
C15_Witness ==
    /\ LastSlot >= 1
    /\ Measured(LastSlot) = 2
    /\ Len(CallsOf("set_sigma_feedback")) = 3
    /\ calls[1].f # calls[1].fb

\* The positions in the last slot's calls of the calls with operation op.
PositionsOf(op) == {k \in 1..Len(calls) : calls[k].op = op}

\* C16: the primary controller is called once in a slot whose number is a
\* multiple of EPOCH_LENGTH and not at all in any other slot; the call
\* follows the secondary's pid_clipped of that slot and precedes every call
\* on a participant; it is given what secondary.acc() has just returned,
\* and what it returns is rewards[slot / EPOCH_LENGTH].
C16_PrimaryOncePerEpoch ==
    SlotRan
        => /\ Cardinality(PositionsOf("primary.pid_clipped"))
                = Bit(LastSlot % EPOCH_LENGTH = 0)
           /\ Cardinality(PositionsOf("secondary.acc"))
                = Bit(LastSlot % EPOCH_LENGTH = 0)
           /\ \A p \in PositionsOf("primary.pid_clipped") :
                /\ calls[p].slot = LastSlot
                /\ \A s \in PositionsOf("secondary.pid_clipped") : s < p
                /\ \A d \in PositionsOf("set_sigma_feedback") \cup PositionsOf("run")
                         \cup PositionsOf("update_stake") \cup PositionsOf("resync_stake") :
                      p < d
                /\ calls[p - 1].op = "secondary.acc"
                /\ calls[p].fb = calls[p - 1].amount
                /\ LastSlot \div EPOCH_LENGTH < Len(rewards)
                /\ calls[p].amount = At(rewards, LastSlot \div EPOCH_LENGTH)

\* C16 witness: slot 2, the first of the second epoch, has called the
\* primary controller, got a positive issuance and run two participants;
\* the issuance of the first epoch was 0.
C16_Witness ==
    /\ LastSlot = EPOCH_LENGTH
    /\ \E p \in PositionsOf("primary.pid_clipped") : calls[p].amount > 0
    /\ rewards[1] = 0
    /\ Len(CallsOf("run")) = 2

\* The positions in cs of the calls with operation op on participant id.
PositionsOn(cs, op, id) == {k \in 1..Len(cs) : cs[k].op = op /\ cs[k].id = id}

\* C17: in every slot each participant gets one set_sigma_feedback call and
\* then, right after it, one run call, the Sigma handed over being the one
\* the previous slot ended with; so after k slots every won_hist has k
\* entries, whatever order the shuffles have left the participants in.
C17_OneRunPerParticipantPerSlot ==
    /\ [](\A i \in 1..Len(darkies) : Len(darkies[i].won_hist) = Len(winners))
    /\ [][SlotStep
            => \A i \in 1..Len(darkies) :
                 LET id == darkies[i].id
                     fbs == PositionsOn(calls', "set_sigma_feedback", id)
                     runs == PositionsOn(calls', "run", id)
                 IN /\ Cardinality(fbs) = 1
                    /\ Cardinality(runs) = 1
                    /\ \A p \in fbs :
                         /\ p + 1 \in runs
                         /\ calls'[p].amount = Sigma
                         /\ calls'[p].slot = LastSlot']_vars

\* C17 witness: three slots have run, the last one was given a Sigma that
\* earlier payouts had raised, raised it again and left the participants
\* in another order than they were added in.
C17_Witness ==
    /\ Len(winners) = 3
    /\ Len(darkies) = 3
    /\ \E i \in 1..Len(darkies) : darkies[i].id # i
    /\ \A i \in 1..Len(darkies) : Len(darkies[i].won_hist) = 3
    /\ \E p \in 1..Len(calls) :
         /\ calls[p].op = "set_sigma_feedback"
         /\ calls[p].amount > Airdrop
         /\ calls[p].amount < Sigma

\* The epoch a slot belongs to.
EpochOf(slot) == slot \div EPOCH_LENGTH

\* C18: what the resync pays for a resolved slot r is rewards[r div
\* EPOCH_LENGTH], the issuance of the epoch of r, which rewards always
\* holds, also when the resolved slots lie in earlier epochs than the
\* resolving slot.
C18_ResyncPaysTheSlotsEpoch ==
    \A k \in 1..Len(calls) :
        calls[k].op = "resync_stake"
            => /\ calls[k].slot >= 0
               /\ EpochOf(calls[k].slot) < Len(rewards)
               /\ calls[k].amount = At(rewards, EpochOf(calls[k].slot))

\* C18 witness: a slot of the third epoch has resolved slots of the second
\* and of the first epoch, and was paid another issuance than the one of
\* those epochs.
C18_Witness ==
    /\ Len(rewards) = 3
    /\ \E a, b \in 1..Len(calls) :
         /\ calls[a].op = "resync_stake" /\ EpochOf(calls[a].slot) = 0
         /\ calls[b].op = "resync_stake" /\ EpochOf(calls[b].slot) = 1
         /\ calls[a].amount # Last(rewards)
         /\ calls[b].amount # Last(rewards)

\* The slots after r, up to the last one run, with exactly one winner, and
\* the first of them.
FinalizingAfter(r) == {s \in (r + 1)..LastSlot : At(winners, s) = 1}

FirstFinalizingAfter(r) ==
    CHOOSE s \in FinalizingAfter(r) : \A t \in FinalizingAfter(r) : s <= t

\* The resolutions of slot r over the whole run so far.
ResolutionsOf(r) == {k \in 1..Len(resolutions) : resolutions[k].slot = r}

\* The issuance of the epochs of the slots 0 .. n-1 with exactly one winner.
RECURSIVE FinalizedIssuance(_)
FinalizedIssuance(n) ==
    IF n = 0 THEN 0
    ELSE FinalizedIssuance(n - 1)
         + (IF At(winners, n - 1) = 1 THEN At(rewards, EpochOf(n - 1)) ELSE 0)

\* The issuance of the epochs of the first n resolved slots.
RECURSIVE ResolvedIssuance(_)
ResolvedIssuance(n) ==
    IF n = 0 THEN 0
    ELSE ResolvedIssuance(n - 1) + At(rewards, EpochOf(resolutions[n].slot))

\* C19: over the whole run a slot whose winner count is not 1 and that a
\* slot with exactly one winner follows is resolved once, by one
\* resync_stake call in the first such slot after it; a slot with exactly
\* one winner is never resolved, nor is a slot that no such slot follows;
\* and Sigma has grown by one issuance for each finalizing slot and one for
\* each resolved slot, no more.
C19_ResolvedExactlyOnce ==
    /\ \A r \in 0..LastSlot :
         IF At(winners, r) # 1 /\ FinalizingAfter(r) # {}
         THEN /\ Cardinality(ResolutionsOf(r)) = 1
              /\ \A k \in ResolutionsOf(r) : resolutions[k].at = FirstFinalizingAfter(r)
         ELSE ResolutionsOf(r) = {}
    /\ \A k \in 1..Len(resolutions) : resolutions[k].slot \in 0..LastSlot
    /\ Sigma = Airdrop + FinalizedIssuance(Len(winners))
                       + ResolvedIssuance(Len(resolutions))

\* C19 witness: the run has returned after two slots each resolved earlier
\* slots of its own, at positive issuance, and a last slot that did not
\* finalize and was left unpaid.
C19_Witness ==
    /\ outcome = "returned"
    /\ Last(winners) # 1
    /\ \E a, b \in 1..Len(resolutions) : resolutions[a].at # resolutions[b].at
    /\ ResolvedIssuance(Len(resolutions)) > 0

\* The sum of the amounts of the first n calls of cs that are update_stake
\* or resync_stake calls on a participant of ids.
RECURSIVE PaidTo(_, _, _)
PaidTo(cs, n, ids) ==
    IF n = 0 THEN 0
    ELSE PaidTo(cs, n - 1, ids)
         + (IF cs[n].op \in {"update_stake", "resync_stake"} /\ cs[n].id \in ids
            THEN cs[n].amount ELSE 0)

\* The ids of the participants of ds.
Ids(ds) == {ds[i].id : i \in 1..Len(ds)}

\* C20: in every slot Sigma grows by the sum of the amounts passed to
\* update_stake and resync_stake in that slot, every such call is on one
\* participant of the table, whose stake grows by what it was passed, and
\* the table holds the same participants, each once, after the slot's
\* shuffles as before; so Sigma less the airdrop is all that was paid out,
\* which is what the stakes have grown by.
C20_SupplyAccounting ==
    /\ [](Sigma - Airdrop = SumStake(darkies) - initial_stake)
    /\ [](Cardinality(Ids(darkies)) = Len(darkies))
    /\ [][SlotStep
            => /\ Sigma' - Sigma = PaidTo(calls', Len(calls'), Ids(darkies))
               /\ \A k \in 1..Len(calls') :
                    calls'[k].op \in {"update_stake", "resync_stake"}
                        => calls'[k].id \in Ids(darkies)
               /\ Len(darkies') = Len(darkies)
               /\ Ids(darkies') = Ids(darkies)
               /\ \A i \in 1..Len(darkies) :
                    \E j \in 1..Len(darkies') :
                        /\ darkies'[j].id = darkies[i].id
                        /\ darkies'[j].stake = darkies[i].stake
                              + PaidTo(calls', Len(calls'), {darkies[i].id})
                        /\ SubSeq(darkies'[j].won_hist, 1, Len(winners))
                              = darkies[i].won_hist]_vars

\* C20 witness: the last slot paid its winner and, by resync, two earlier
\* slots, all at positive issuance, and left the three participants in
\* another order.
C20_Witness ==
    /\ Len(darkies) = 3
    /\ \E i \in 1..Len(darkies) : darkies[i].id # i
    /\ Len(CallsOf("update_stake")) = 1
    /\ Len(CallsOf("resync_stake")) = 2
    /\ \A k \in 1..Len(calls) :
         calls[k].op \in {"update_stake", "resync_stake"} => calls[k].amount > 0
    /\ Sigma - Airdrop >= PaidTo(calls, Len(calls), Ids(darkies))

\* C13: with a node that answers, the search endpoint answers a hash that
\* is no block's with the transaction of that hash when there is one, and
\* with an explicit not-found response, not with an exception let out of
\* the view, when the transaction lookup fails too.
C13_SearchMissIsNotFound ==
    (request.route = "/search" /\ rpc_up /\ request.hash \notin blocks)
        => IF request.hash \in transactions
           THEN response = [template |-> "transaction.html", status |-> 200,
                            arg |-> request.hash]
           ELSE response.status = 404 /\ response.template = "404.html"

====
